---- MODULE Spec2Model ----
(***************************************************************************)
(* The event admission and dispatch pipeline of the Slack assistant.       *)
(*                                                                         *)
(* main_socket.py is a FastAPI application: its two endpoints are          *)
(* coroutines of one event loop, so a handler runs without interruption    *)
(* from one await to the next.  agent.run, requests.post and               *)
(* chat_postMessage are blocking calls made on the loop: while one of them *)
(* is in progress the variable loop holds the request that made it and no  *)
(* other handler can run, although further requests may arrive.            *)
(*                                                                         *)
(* A text is a sequence of tokens; str.strip removes the blank tokens at   *)
(* both ends and str.replace(t, "") removes every token t.                 *)
(***************************************************************************)
EXTENDS Integers, Sequences, FiniteSets, TLC

VARIABLES
    program,             \* the script that is running
    req,                 \* the requests received so far, in order of arrival
    pc,                  \* pc[r]: where the handling of request r stands
    trace,               \* trace[r]: the calls made for request r, in order
    processing_tracker,  \* main_socket.py: the in-memory dict user_id -> bool
    loop,                \* main_socket.py: the request whose blocking call holds the event loop, or 0
    TEAM_ID,             \* main.py, main_refactored.py: the team_id auth_test returned at start-up
    arrived_during,      \* arrived_during[r]: the requests that were in flight when r arrived
    vin,                 \* the arguments of a function or method called on its own
    vout,                \* its outcome
    self                 \* the fields of the toolkit object the method is called on

vars == <<program, req, pc, trace, processing_tracker, loop, TEAM_ID, arrived_during, vin, vout, self>>

----------------------------------------------------------------------------
\* Bounds of the model.

MaxReqs == 2        \* requests main_socket.py receives in one run
MaxSocketReqs == 1  \* requests main.py or main_refactored.py receives in one run
MaxScratchReqs == 2 \* requests scratch/main_scratch.py receives in one run
Resolution == 2     \* readings of time.time() per second
NowSec == 1000      \* the second in which the requests are verified
Margin == 2         \* timestamps range this far beyond the freshness window

----------------------------------------------------------------------------
\* Values.

None == "None"
Blank == " "

BOT_USER_ID == "UBOT"
SLACK_SIGNING_SECRET == "signing-secret"
MentionBot == "<@UBOT>"

Abs(x) == IF x < 0 THEN -x ELSE x

RECURSIVE LStrip(_)
LStrip(t) == IF t # <<>> /\ Head(t) = Blank THEN LStrip(Tail(t)) ELSE t

RECURSIVE RStrip(_)
RStrip(t) ==
    IF t # <<>> /\ t[Len(t)] = Blank THEN RStrip(SubSeq(t, 1, Len(t) - 1)) ELSE t

Strip(t) == RStrip(LStrip(t))

RECURSIVE Remove(_, _)
Remove(t, tok) ==
    IF t = <<>> THEN <<>>
    ELSE IF Head(t) = tok THEN Remove(Tail(t), tok)
    ELSE <<Head(t)>> \o Remove(Tail(t), tok)

Lower(tok) == IF tok = "/INDO" THEN "/indo" ELSE IF tok = "/EN" THEN "/en" ELSE tok

ContainsLower(t, tok) == \E i \in 1..Len(t) : Lower(t[i]) = tok

\* the truth value of dict.get(key): a missing key gives None, which is false
GetTruthy(d, k) == k \in DOMAIN d /\ d[k]

\* d[key] = value
Put(d, k, v) == [x \in DOMAIN d \cup {k} |-> IF x = k THEN v ELSE d[x]]

Call(op, dest, what) == [op |-> op, dest |-> dest, what |-> what]

\* agent.run(prompt)
Run(prompt) == [op |-> "agent.run", dest |-> "agent", what |-> "prompt", prompt |-> prompt]

\* agent.run raised
RunFailed == Call("agent.run failed", "agent", "")

\* a print in an except branch
Log(what) == Call("log", "stdout", what)

\* f"<@{user}>"
Mention(user) ==
    CASE user = "U1" -> "<@U1>"
      [] user = "U2" -> "<@U2>"
      [] user = BOT_USER_ID -> MentionBot
      [] OTHER -> "<@>"

\* response.content.strip() of the RunResponse agent.run returns
content == "response"

\* the post of the agent's answer: text is the message sent
Deliver(dest, text, posted) ==
    [op |-> IF posted THEN "post" ELSE "post failed", dest |-> dest, what |-> "result",
     text |-> text]

----------------------------------------------------------------------------
\* Slack signature verification (main_socket.py).

StaleSeconds == 60 * 5

\* a header value: int(timestamp) raises ValueError unless it is a decimal integer
Timestamp(n) == [dec |-> TRUE, val |-> n]
NotDecimal == [dec |-> FALSE, val |-> 0]

\* "v0=" + hmac.new(secret, f"v0:{timestamp}:{body}", sha256).hexdigest()
Sign(secret, timestamp, body) == <<"v0=", secret, <<"v0", timestamp, body>>>>

\* as verify_slack_signature, the age taken without abs()
verify_older_only(now, body, timestamp, signature) ==
    IF ~timestamp.dec THEN "ValueError: invalid literal for int()"
    ELSE IF now - timestamp.val * Resolution > StaleSeconds * Resolution
        THEN "ValueError: Request too old"
    ELSE IF Sign(SLACK_SIGNING_SECRET, timestamp, body) # signature
        THEN "ValueError: Invalid Slack signature"
    ELSE "ok"

\* as verify_slack_signature, the digests never compared
verify_freshness_only(now, body, timestamp, signature) ==
    IF ~timestamp.dec THEN "ValueError: invalid literal for int()"
    ELSE IF Abs(now - timestamp.val * Resolution) > StaleSeconds * Resolution
        THEN "ValueError: Request too old"
    ELSE "ok"

\* as verify_slack_signature, a timestamp that is not a number passing the
\* freshness test
verify_unparsed(now, body, timestamp, signature) ==
    IF timestamp.dec /\ Abs(now - timestamp.val * Resolution) > StaleSeconds * Resolution
        THEN "ValueError: Request too old"
    ELSE IF Sign(SLACK_SIGNING_SECRET, timestamp, body) # signature
        THEN "ValueError: Invalid Slack signature"
    ELSE "ok"

\* now is the reading of time.time(), in ticks of 1/Resolution second
verify_slack_signature(now, body, timestamp, signature) ==
    IF ~timestamp.dec THEN "ValueError: invalid literal for int()"
    ELSE IF Abs(now - timestamp.val * Resolution) > StaleSeconds * Resolution
        THEN "ValueError: Request too old"
    ELSE IF Sign(SLACK_SIGNING_SECRET, timestamp, body) # signature
        THEN "ValueError: Invalid Slack signature"
    ELSE "ok"

\* the readings time.time() can give within the second NowSec
Clock == {NowSec * Resolution + f : f \in 0..(Resolution - 1)}

----------------------------------------------------------------------------
\* Inbound requests.

SlashBody(command, user_id, team_id) ==
    [command |-> command, text |-> <<Blank, "hello", Blank>>, user_id |-> user_id,
     team_id |-> team_id, channel_id |-> "C1",
     response_url |-> "https://hooks.slack.com/commands/1", thread_ts |-> ""]

Event(type, channel_type, user, text, bot_id) ==
    [type |-> type, channel_type |-> channel_type, user |-> user, text |-> text,
     bot_id |-> bot_id, channel |-> "C1", ts |-> "100.1", thread_ts |-> None]

EventBody(team_id, event) ==
    [type |-> "event_callback", challenge |-> None, team_id |-> team_id, event |-> event]

\* payload.get("event", {}) of a payload without an event
NoEvent ==
    [type |-> None, channel_type |-> None, user |-> None, text |-> <<>>,
     bot_id |-> None, channel |-> None, ts |-> None, thread_ts |-> None]

UrlVerification ==
    [type |-> "url_verification", challenge |-> "challenge-1", team_id |-> None,
     event |-> NoEvent]

Http(ep, timestamp, secret, body) ==
    [ep |-> ep, timestamp |-> timestamp, signature |-> Sign(secret, timestamp, body),
     body |-> body]

Fresh == Timestamp(NowSec)
Stale == Timestamp(NowSec - StaleSeconds - 1)

Authorized == "T06LP8F3K8V"
Unauthorized == "TOTHER"

MentionU1 == Event("app_mention", "channel", "U1", <<MentionBot, Blank, "hello">>, None)
DirectU2 == Event("message", "im", "U2", <<"hello">>, None)
\* the bot's own reply as Slack delivers it back, and a message of the bot's
\* user that carries no bot_id (its "has joined the channel" message)
BotEcho == Event("message", "im", BOT_USER_ID, <<"reply">>, "B1")
BotJoined == Event("message", "channel", BOT_USER_ID, <<MentionBot, "joined">>, None)
OtherBot == Event("message", "channel", "U1", <<"reply">>, "B2")
\* a reaction_added event names its message under "item": it has no channel
\* and no ts of its own
Reaction ==
    [Event("reaction_added", None, "U1", <<>>, None) EXCEPT !.channel = None, !.ts = None]
\* a message of a user in a public channel that does not mention the bot
ChannelMsg == Event("message", "channel", "U1", <<"hello">>, None)
\* a mention that is a reply inside a thread
MentionInThread ==
    [Event("app_mention", "channel", "U2", <<MentionBot, Blank, "hello">>, None)
        EXCEPT !.ts = "105.2", !.thread_ts = "100.1"]

\* a request sent without the X-Slack-Signature header
Unsigned(ep, timestamp, body) ==
    [ep |-> ep, timestamp |-> timestamp, signature |-> <<>>, body |-> body]

\* the requests sent to main_socket.py
HttpRequests ==
    {Http("/slack/commands", Fresh, SLACK_SIGNING_SECRET, b) :
        b \in {SlashBody("/indo", "U1", Authorized),
               SlashBody("/indo", "U1", Unauthorized),
               SlashBody("/weather", "U1", Authorized)}}
    \cup {Http("/slack/events", Fresh, SLACK_SIGNING_SECRET, b) :
        b \in {EventBody(Authorized, MentionU1), EventBody(Unauthorized, DirectU2),
               EventBody(Authorized, BotEcho), EventBody(Authorized, BotJoined),
               EventBody(Authorized, Reaction), EventBody(Authorized, ChannelMsg),
               UrlVerification}}
    \cup {Http("/slack/commands", Stale, SLACK_SIGNING_SECRET,
               SlashBody("/indo", "U1", Authorized)),
          Http("/slack/commands", Fresh, "guessed-secret",
               SlashBody("/indo", "U1", Authorized)),
          Http("/slack/events", Stale, SLACK_SIGNING_SECRET,
               EventBody(Authorized, MentionU1)),
          Http("/slack/events", Fresh, "guessed-secret", UrlVerification),
          Unsigned("/slack/events", Fresh, EventBody(Authorized, MentionU1))}

\* a message URL, in pieces: the text between two pieces matches no part of
\* the pattern of extract_channel_and_ts other than the one it stands at
Digits == {"0", "1", "2", "3", "4", "5", "6", "7", "8", "9"}
WorkspaceNames == {"benheathworkspace", "my-team", "C08L9AWRH4Z"}  \* [a-zA-Z0-9\-]+
ChannelNames == {"benheathworkspace", "C08L9AWRH4Z"}               \* [A-Za-z0-9]+

MessageUrl ==
    <<"https://", "benheathworkspace", ".slack.com/archives/", "C08L9AWRH4Z", "/p",
      "1", "7", "4", "3", "5", "3", "5", "0", "8", "3", "0", "5", "7", "0", "5", "9">>

\* a command with the given text
SlashText(command, user_id, text) ==
    [SlashBody(command, user_id, Authorized) EXCEPT !.text = text]

\* the messages conversations_replies returns for a thread, oldest first; a
\* thread has at least its parent message
Msg(user, text, ts) == [user |-> user, text |-> text, ts |-> ts]

Threads ==
    {<<Msg("U1", "question", "1743535083.057059")>>,
     <<Msg("U1", "question", "1743535083.057059"), Msg("U2", "answer", "1743535090.000100")>>,
     <<Msg("U1", "question", "1743535083.057059"),
       [subtype |-> "channel_join", ts |-> "1743535085.000000"],
       Msg("U2", "answer", "1743535090.000100"),
       [user |-> "U1", ts |-> "1743535095.000200"]>>}

\* the payload of a button click: no event, no command
InteractiveBody ==
    [type |-> "block_actions", team_id |-> Authorized,
     response_url |-> "https://hooks.slack.com/actions/1"]

\* a SocketModeRequest: its type and its payload
Socket(type, payload) == [ep |-> type, body |-> payload]

\* the requests sent to main.py and main_refactored.py
SocketRequests ==
    {Socket("slash_commands", b) :
        b \in {SlashBody("/indo", "U1", Authorized), SlashBody("/en", "U2", Authorized),
               SlashBody("/indo", "U1", Unauthorized),
               SlashBody("/weather", "U1", Authorized),
               SlashText("/summarize", "U1", <<Blank>> \o MessageUrl),
               SlashText("/summarize", "U2", <<"hello">>)}}
    \cup {Socket("events_api", EventBody(Authorized, e)) :
        e \in {MentionU1, DirectU2, BotEcho, BotJoined, OtherBot, Reaction, ChannelMsg,
               MentionInThread}}
    \cup {Socket("events_api", EventBody(Unauthorized, DirectU2)),
          Socket("interactive", InteractiveBody)}

Requests == IF program = "main_socket" THEN HttpRequests ELSE SocketRequests

\* the requests one run receives
Quota ==
    IF program = "main_socket" THEN MaxReqs
    ELSE IF program = "main_scratch" THEN MaxScratchReqs
    ELSE MaxSocketReqs

\* as PayloadGet, the key never found
PayloadGet_none(payload, key) == None

\* payload.get(key)
PayloadGet(payload, key) == IF key \in DOMAIN payload THEN payload[key] ELSE None

\* payload.get("event", {})
PayloadEvent(payload) == IF "event" \in DOMAIN payload THEN payload.event ELSE NoEvent

ReqIds == 1..Len(req)

\* r was admitted and its dispatch has not reached its end
InFlight(r) == pc[r] \in {"background", "agent", "post", "except"}

----------------------------------------------------------------------------
\* main_socket.py

\* x_slack_signature: str = Header(...): a header the endpoint requires; the
\* framework answers a request without it before the handler is called
MissingHeader(request) == request.signature = <<>>

\* the value None as the result of handle_message_event
NoResult == [channel |-> None, prompt |-> <<>>, user |-> None, text |-> <<>>]

\* the tuple (channel, prompt, user, text) handle_message_event returns, or None
handle_message_event(event) ==
    IF event.text = <<>> \/ event.user = None \/ event.bot_id # None THEN NoResult
    ELSE LET text == Strip(Remove(event.text, MentionBot))
             prompt ==
                 IF ContainsLower(text, "/indo")
                     THEN <<"Translate this message to Indonesian:">>
                          \o Strip(Remove(text, "/indo"))
                 ELSE IF ContainsLower(text, "/en")
                     THEN <<"Translate this message to English:">>
                          \o Strip(Remove(text, "/en"))
                 ELSE Strip(text)
         IN  [channel |-> event.channel, prompt |-> prompt, user |-> event.user,
              text |-> Strip(text)]

\* as AlreadyProcessing, the marker never looked at
AlreadyProcessing_unchecked(user_id) == FALSE

\* the test `if processing_tracker.get(user_id):` of both endpoints
AlreadyProcessing(user_id) == GetTruthy(processing_tracker, user_id)

Finish(r, calls) ==
    /\ pc' = [pc EXCEPT ![r] = "done"]
    /\ trace' = [trace EXCEPT ![r] = @ \o calls]

\* the server reads a request; its handler has not run yet
Receive(q) ==
    /\ Len(req) < Quota
    /\ req' = Append(req, q)
    /\ pc' = Append(pc, "recv")
    /\ trace' = Append(trace, <<>>)
    /\ arrived_during' = Append(arrived_during, {r \in ReqIds : InFlight(r)})
    /\ UNCHANGED <<program, TEAM_ID, processing_tracker, loop, vin, vout, self>>

\* a request reaches the server
Arrive(q) == q \in Requests /\ Receive(q)

\* POST /slack/commands, up to the return of the handler
slash_commands(r) ==
    /\ program = "main_socket"
    /\ r \in ReqIds
    /\ req[r].ep = "/slack/commands"
    /\ pc[r] = "recv"
    /\ loop = 0
    /\ \E now \in Clock :
         LET form == req[r].body
             user_id == form.user_id
         IN  IF MissingHeader(req[r])
             THEN /\ Finish(r, <<Call("respond", "422", "Unprocessable Entity")>>)
                  /\ UNCHANGED processing_tracker
             ELSE IF verify_slack_signature(now, req[r].body, req[r].timestamp,
                                            req[r].signature) # "ok"
             THEN /\ Finish(r, <<Call("respond", "200", "Unauthorized")>>)
                  /\ UNCHANGED processing_tracker
             ELSE IF AlreadyProcessing(user_id)
             THEN /\ Finish(r, <<Call("parse", "form", ""),
                                 Call("respond", "200", "already being processed")>>)
                  /\ UNCHANGED processing_tracker
             ELSE /\ processing_tracker' = Put(processing_tracker, user_id, TRUE)
                  /\ pc' = [pc EXCEPT ![r] = "background"]
                  /\ trace' = [trace EXCEPT ![r] = @ \o
                         <<Call("parse", "form", ""),
                           Call("admit", user_id, ""),
                           Call("respond", "200", "Processing your request")>>]
    /\ UNCHANGED <<program, TEAM_ID, req, loop, arrived_during, vin, vout, self>>

\* the prompt slash_commands builds from the command and its text
slash_prompt(command, text) ==
    IF command = "/indo" THEN <<"Translate this message to Indonesian:">> \o Strip(text)
    ELSE IF command = "/en" THEN <<"Translate this message to English:">> \o Strip(text)
    ELSE text

\* the background task starts after the response was sent: agent.run(prompt)
run_agent_async_start(r) ==
    /\ program = "main_socket"
    /\ r \in ReqIds
    /\ req[r].ep = "/slack/commands"
    /\ pc[r] = "background"
    /\ loop = 0
    /\ loop' = r
    /\ pc' = [pc EXCEPT ![r] = "agent"]
    /\ trace' = [trace EXCEPT ![r] =
           Append(@, Run(slash_prompt(req[r].body.command, req[r].body.text)))]
    /\ UNCHANGED <<program, TEAM_ID, req, processing_tracker, arrived_during, vin, vout, self>>

\* agent.run returns, or raises
run_agent_async_agent(r) ==
    /\ program = "main_socket"
    /\ r \in ReqIds
    /\ req[r].ep = "/slack/commands"
    /\ pc[r] = "agent"
    /\ loop = r
    /\ \E returns \in BOOLEAN :
         /\ pc' = [pc EXCEPT ![r] = IF returns THEN "post" ELSE "except"]
         /\ trace' = [trace EXCEPT ![r] = IF returns THEN @ ELSE Append(@, RunFailed)]
    /\ UNCHANGED <<program, TEAM_ID, req, processing_tracker, loop, arrived_during, vin, vout, self>>

\* requests.post(response_url, json=payload), then the marker is cleared
run_agent_async_post(r) ==
    /\ program = "main_socket"
    /\ r \in ReqIds
    /\ req[r].ep = "/slack/commands"
    /\ pc[r] = "post"
    /\ loop = r
    /\ \E posted \in BOOLEAN :
         LET form == req[r].body
             final_text ==
                 <<">From:", Mention(form.user_id)>> \o Strip(form.text) \o <<content>>
         IN  IF posted
             THEN /\ Finish(r, <<Deliver(form.response_url, final_text, TRUE),
                                 Call("release", form.user_id, "")>>)
                  /\ processing_tracker' = Put(processing_tracker, form.user_id, FALSE)
                  /\ loop' = 0
             ELSE /\ pc' = [pc EXCEPT ![r] = "except"]
                  /\ trace' = [trace EXCEPT ![r] =
                         Append(@, Deliver(form.response_url, final_text, FALSE))]
                  /\ UNCHANGED <<processing_tracker, loop>>
    /\ UNCHANGED <<program, TEAM_ID, req, arrived_during, vin, vout, self>>

\* the except branch of run_agent_async: one post of the error text
run_agent_async_except(r) ==
    /\ program = "main_socket"
    /\ r \in ReqIds
    /\ req[r].ep = "/slack/commands"
    /\ pc[r] = "except"
    /\ loop = r
    /\ \E posted \in BOOLEAN :
         Finish(r, <<Log("Error posting to response_url")>>
                   \o (IF posted
                       THEN <<Call("post", req[r].body.response_url, "apology")>>
                       ELSE <<Call("post failed", req[r].body.response_url, "apology"),
                              Call("raise", "", "")>>))
    /\ loop' = 0
    /\ UNCHANGED <<program, TEAM_ID, req, processing_tracker, arrived_during, vin, vout, self>>

\* POST /slack/events, up to the call of agent.run
slack_events(r) ==
    /\ program = "main_socket"
    /\ r \in ReqIds
    /\ req[r].ep = "/slack/events"
    /\ pc[r] = "recv"
    /\ loop = 0
    /\ \E now \in Clock :
         LET payload == req[r].body
             result == handle_message_event(payload.event)
         IN  IF MissingHeader(req[r])
             THEN /\ Finish(r, <<Call("respond", "422", "Unprocessable Entity")>>)
                  /\ UNCHANGED <<processing_tracker, loop>>
             ELSE IF verify_slack_signature(now, req[r].body, req[r].timestamp,
                                            req[r].signature) # "ok"
             THEN /\ Finish(r, <<Call("respond", "403", "Invalid signature")>>)
                  /\ UNCHANGED <<processing_tracker, loop>>
             ELSE IF PayloadGet(payload, "type") = "url_verification"
             THEN /\ Finish(r, <<Call("parse", "json", ""),
                                 Call("respond", "200", PayloadGet(payload, "challenge"))>>)
                  /\ UNCHANGED <<processing_tracker, loop>>
             ELSE IF result = NoResult \/ AlreadyProcessing(result.user)
             THEN /\ Finish(r, <<Call("parse", "json", ""),
                                 Call("respond", "200", "ok")>>)
                  /\ UNCHANGED <<processing_tracker, loop>>
             ELSE /\ processing_tracker' = Put(processing_tracker, result.user, TRUE)
                  /\ loop' = r
                  /\ pc' = [pc EXCEPT ![r] = "agent"]
                  /\ trace' = [trace EXCEPT ![r] = @ \o
                         <<Call("parse", "json", ""),
                           Call("admit", result.user, ""),
                           Run(result.prompt)>>]
    /\ UNCHANGED <<program, TEAM_ID, req, arrived_during, vin, vout, self>>

\* agent.run returns, or raises into the except branch, which clears the marker
slack_events_agent(r) ==
    /\ program = "main_socket"
    /\ r \in ReqIds
    /\ req[r].ep = "/slack/events"
    /\ pc[r] = "agent"
    /\ loop = r
    /\ \E returns \in BOOLEAN :
         IF returns
         THEN /\ pc' = [pc EXCEPT ![r] = "post"]
              /\ UNCHANGED <<trace, processing_tracker, loop>>
         ELSE /\ Finish(r, <<RunFailed, Log("Webhook event error"),
                             Call("release", req[r].body.event.user, ""),
                             Call("respond", "200", "ok")>>)
              /\ processing_tracker' =
                     Put(processing_tracker, req[r].body.event.user, FALSE)
              /\ loop' = 0
    /\ UNCHANGED <<program, TEAM_ID, req, arrived_during, vin, vout, self>>

\* chat_postMessage, the marker is cleared on both outcomes, then the response
slack_events_post(r) ==
    /\ program = "main_socket"
    /\ r \in ReqIds
    /\ req[r].ep = "/slack/events"
    /\ pc[r] = "post"
    /\ loop = r
    /\ \E posted \in BOOLEAN :
         LET result == handle_message_event(req[r].body.event)
             final_text ==
                 Strip(Remove(<<">From:", Mention(result.user)>> \o result.text
                              \o <<content>>, MentionBot))
         IN  Finish(r, <<Deliver(result.channel, final_text, posted)>>
                       \o (IF posted THEN <<>> ELSE <<Log("Webhook event error")>>)
                       \o <<Call("release", result.user, ""),
                            Call("respond", "200", "ok")>>)
    /\ processing_tracker' = Put(processing_tracker, req[r].body.event.user, FALSE)
    /\ loop' = 0
    /\ UNCHANGED <<program, TEAM_ID, req, arrived_during, vin, vout, self>>

----------------------------------------------------------------------------
\* main_refactored.py and main.py: Socket Mode.  The listener process runs on a
\* worker thread per request and the scripts keep no state between requests.

VALID_TEAM_IDS == {"T06LP8F3K8V", "T87654321"}

has_valid_subscription(team_id) == team_id \in VALID_TEAM_IDS

\* chat_postMessage or requests.post, which returns or raises
Post(dest, what, posted) == Call(IF posted THEN "post" ELSE "post failed", dest, what)

\* the except branch of a handler: the error is printed and the apology posted;
\* an exception of that post escapes the handler
Apologise(dest, apologised) ==
    <<Log("Error in handler"), Post(dest, "apology", apologised)>>
    \o (IF apologised THEN <<>> ELSE <<Call("raise", "", "")>>)

\* as AnswerOrApologise, the apology posted in a finally branch
AnswerOrApologise_finally(prompt, dest, final_text, returns, posted, apologised) ==
    <<Run(prompt)>>
    \o (IF returns THEN <<Deliver(dest, final_text, posted)>> ELSE <<RunFailed>>)
    \o Apologise(dest, apologised)

\* the run of agent.run followed by the post of its result, inside a try whose
\* except branch posts the apology
AnswerOrApologise(prompt, dest, final_text, returns, posted, apologised) ==
    <<Run(prompt)>>
    \o (IF returns THEN <<Deliver(dest, final_text, posted)>> ELSE <<RunFailed>>)
    \o (IF returns /\ posted THEN <<>> ELSE Apologise(dest, apologised))

\* the try of process around the handler: an exception that escapes the
\* handler is printed
process_try(calls) ==
    IF calls # <<>> /\ calls[Len(calls)].op = "raise"
    THEN SubSeq(calls, 1, Len(calls) - 1) \o <<Log("Error while processing request")>>
    ELSE calls

\* the digits the pattern's ([0-9]+) takes from position i on
RECURSIVE DigitsFrom(_, _)
DigitsFrom(url, i) ==
    IF i <= Len(url) /\ url[i] \in Digits THEN <<url[i]>> \o DigitsFrom(url, i + 1)
    ELSE <<>>

\* ts[:10] and ts[10:]
Take(t, n) == SubSeq(t, 1, IF Len(t) < n THEN Len(t) ELSE n)
Drop(t, n) == SubSeq(t, n + 1, Len(t))

\* re.match anchors the pattern at the start of the text only
extract_channel_and_ts(url) ==
    IF /\ Len(url) >= 6
       /\ url[1] = "https://"
       /\ url[2] \in WorkspaceNames
       /\ url[3] = ".slack.com/archives/"
       /\ url[4] \in ChannelNames
       /\ url[5] = "/p"
       /\ url[6] \in Digits
    THEN LET ts == DigitsFrom(url, 6)
         IN  [ok |-> TRUE, channel |-> url[4],
              ts |-> Take(ts, 10) \o <<".">> \o Drop(ts, 10)]
    ELSE [ok |-> FALSE, channel |-> None, ts |-> <<>>]

Reversed(t) == [i \in 1..Len(t) |-> t[Len(t) + 1 - i]]

HasUserAndText(msg) == "user" \in DOMAIN msg /\ "text" \in DOMAIN msg

\* "\n".join of f"<@{msg['user']}>: {msg['text']}" over the entries
RECURSIVE JoinEntries(_)
JoinEntries(msgs) ==
    IF msgs = <<>> THEN <<>>
    ELSE <<Mention(Head(msgs).user), ":", Head(msgs).text>>
         \o (IF Len(msgs) = 1 THEN <<>> ELSE <<"\n">> \o JoinEntries(Tail(msgs)))

\* the list comprehension over reversed(response["messages"])
history_messages(messages) == SelectSeq(Reversed(messages), HasUserAndText)

\* conversations_replies(channel, ts), which returns messages or raises
Fetch(channel, ts, messages, fetched) ==
    [op |-> IF fetched THEN "fetch" ELSE "fetch failed", dest |-> channel, what |-> ts,
     messages |-> messages]

\* the /summarize branch of handle_slash_command: one try around the fetch,
\* the run of the agent and the post, whose except branch prints and returns
summarize(text, user_id, messages, fetched, returns, posted) ==
    LET target == extract_channel_and_ts(text)
        full_prompt ==
            <<"Summarize comprehensively, skimmable, but keeping important details.",
              "\n", "Thread history:", "\n">> \o JoinEntries(history_messages(messages))
        final_text == <<">From:", Mention(user_id)>> \o text \o <<content>>
        failed == <<Log("Failed to fetch thread history")>>
    IN  IF ~target.ok
        THEN <<Call("raise", "ValueError", "Invalid Slack message URL format")>>
        ELSE IF ~fetched
        THEN <<Fetch(target.channel, target.ts, <<>>, FALSE)>> \o failed
        ELSE <<Fetch(target.channel, target.ts, messages, TRUE)>>
             \o (IF messages = <<>> THEN <<>>
                 ELSE IF ~returns THEN <<Run(full_prompt), RunFailed>> \o failed
                 ELSE <<Run(full_prompt), Deliver(target.channel, final_text, posted)>>
                      \o (IF posted THEN <<>> ELSE failed))

\* as process, the except branch of the acknowledgment not returning
process_ack_ignored(r) ==
    /\ program = "main_refactored"
    /\ r \in ReqIds
    /\ pc[r] = "recv"
    /\ \E acked, posted \in BOOLEAN :
         LET channel == PayloadEvent(req[r].body).channel
             response_url == PayloadGet(req[r].body, "response_url")
             ack == Call(IF acked THEN "ack" ELSE "ack failed", "envelope", "")
         IN  IF ~has_valid_subscription(TEAM_ID)
             THEN Finish(r, <<ack, Call("gate", TEAM_ID, "")>>
                            \o (IF channel = None THEN <<>>
                                ELSE IF posted THEN <<Post(channel, "advisory", TRUE)>>
                                ELSE <<Post(channel, "advisory", FALSE),
                                       Call("raise", "", "")>>))
             ELSE IF response_url # None /\ ~posted
             THEN Finish(r, <<ack, Call("gate", TEAM_ID, ""),
                              Post(response_url, "processing", FALSE),
                              Call("raise", "", "")>>)
             ELSE /\ pc' = [pc EXCEPT ![r] = "handler"]
                  /\ trace' = [trace EXCEPT ![r] = @ \o
                         <<ack, Call("gate", TEAM_ID, "")>>
                         \o (IF response_url = None THEN <<>>
                             ELSE <<Post(response_url, "processing", TRUE)>>)
                         \o <<Call("dispatch", req[r].ep, "")>>]
    /\ UNCHANGED <<program, TEAM_ID, req, processing_tracker, loop, arrived_during, vin, vout, self>>

\* main_refactored.py process, up to the dispatch to a handler
process(r) ==
    /\ program = "main_refactored"
    /\ r \in ReqIds
    /\ pc[r] = "recv"
    /\ \E acked, posted \in BOOLEAN :
         LET channel == PayloadEvent(req[r].body).channel
             response_url == PayloadGet(req[r].body, "response_url")
         IN  IF ~acked
             THEN Finish(r, <<Call("ack failed", "envelope", "")>>)
             ELSE IF ~has_valid_subscription(TEAM_ID)
             THEN Finish(r, <<Call("ack", "envelope", ""), Call("gate", TEAM_ID, "")>>
                            \o (IF channel = None THEN <<>>
                                ELSE IF posted THEN <<Post(channel, "advisory", TRUE)>>
                                ELSE <<Post(channel, "advisory", FALSE),
                                       Call("raise", "", "")>>))
             ELSE IF response_url # None /\ ~posted
             THEN Finish(r, <<Call("ack", "envelope", ""), Call("gate", TEAM_ID, ""),
                              Post(response_url, "processing", FALSE),
                              Call("raise", "", "")>>)
             ELSE /\ pc' = [pc EXCEPT ![r] = "handler"]
                  /\ trace' = [trace EXCEPT ![r] = @ \o
                         <<Call("ack", "envelope", ""), Call("gate", TEAM_ID, "")>>
                         \o (IF response_url = None THEN <<>>
                             ELSE <<Post(response_url, "processing", TRUE)>>)
                         \o <<Call("dispatch", req[r].ep, "")>>]
    /\ UNCHANGED <<program, TEAM_ID, req, processing_tracker, loop, arrived_during, vin, vout, self>>

\* main_refactored.py handle_slash_command; an exception that escapes it is
\* caught and printed by process
handle_slash_command(r) ==
    /\ program = "main_refactored"
    /\ r \in ReqIds
    /\ pc[r] = "handler"
    /\ req[r].ep = "slash_commands"
    /\ \E fetched, returns, posted, apologised \in BOOLEAN : \E messages \in Threads :
         LET command == req[r].body.command
             text == Strip(req[r].body.text)
             user_id == req[r].body.user_id
             response_url == req[r].body.response_url
             prompt ==
                 IF command = "/indo"
                 THEN <<"Translate this message to informal Indonesian:">> \o text
                 ELSE <<"Translate this message to English:">> \o text
             final_text == <<">From:", Mention(user_id)>> \o text \o <<content>>
         IN  IF command \in {"/indo", "/en"}
             THEN Finish(r, process_try(AnswerOrApologise(prompt, response_url, final_text,
                                                          returns, posted, apologised)))
             ELSE IF command = "/summarize"
             THEN Finish(r, process_try(summarize(text, user_id, messages, fetched,
                                                  returns, posted)))
             ELSE Finish(r, <<>>)
    /\ UNCHANGED <<program, TEAM_ID, req, processing_tracker, loop, arrived_during, vin, vout, self>>

\* event.get("thread_ts") or event.get("ts")
thread_ts(event) == IF event.thread_ts # None THEN event.thread_ts ELSE event.ts

\* chat_postMessage(..., thread_ts=thread_ts) for the answer among the calls
InThread(calls, ts) ==
    [i \in 1..Len(calls) |->
        IF calls[i].what = "result"
        THEN [op |-> calls[i].op, dest |-> calls[i].dest, what |-> "result",
              text |-> calls[i].text, thread_ts |-> ts]
        ELSE calls[i]]

\* as direct_message, the replies of the thread fetched first
direct_message_with_history(event, returns, posted, apologised) ==
    <<Fetch(event.channel, event.ts, <<>>, TRUE)>>
    \o InThread(AnswerOrApologise(Strip(event.text), event.channel, <<content>>,
                                  returns, posted, apologised), thread_ts(event))

\* the branch of handle_events_api for a message in a direct-message channel
direct_message(event, returns, posted, apologised) ==
    InThread(AnswerOrApologise(Strip(event.text), event.channel, <<content>>,
                               returns, posted, apologised), thread_ts(event))

\* main_refactored.py handle_events_api; str has no method contains, so the
\* app_mention branch raises AttributeError at its first statement
handle_events_api(r) ==
    /\ program = "main_refactored"
    /\ r \in ReqIds
    /\ pc[r] = "handler"
    /\ req[r].ep = "events_api"
    /\ \E reacted, returns, posted, apologised \in BOOLEAN :
         LET event == PayloadEvent(req[r].body)
             react ==
                 IF reacted /\ event.ts # None
                 THEN <<Call("react", event.channel, "eyes")>>
                 ELSE <<>>
         IN  IF event.bot_id # None \/ event.user = BOT_USER_ID
             THEN Finish(r, <<>>)
             ELSE IF event.type = "app_mention"
             THEN Finish(r, process_try(react \o Apologise(event.channel, apologised)))
             ELSE IF event.type = "message" /\ event.channel_type = "im"
             THEN Finish(r, process_try(
                      react \o direct_message(event, returns, posted, apologised)))
             ELSE Finish(r, react)
    /\ UNCHANGED <<program, TEAM_ID, req, processing_tracker, loop, arrived_during, vin, vout, self>>

\* main_refactored.py process: a request type with no handler is only printed
process_unsupported(r) ==
    /\ program = "main_refactored"
    /\ r \in ReqIds
    /\ pc[r] = "handler"
    /\ req[r].ep \notin {"slash_commands", "events_api"}
    /\ Finish(r, <<>>)
    /\ UNCHANGED <<program, TEAM_ID, req, processing_tracker, loop, arrived_during, vin, vout, self>>

\* main.py process, up to the dispatch.  requests.post(None) raises
\* MissingSchema: a payload without response_url, as every events_api payload
\* is, ends there, so handle_events_api of main.py is never entered.
main_process(r) ==
    /\ program = "main"
    /\ r \in ReqIds
    /\ pc[r] = "recv"
    /\ \E acked, noticed, posted \in BOOLEAN :
         LET channel == PayloadEvent(req[r].body).channel
             response_url == PayloadGet(req[r].body, "response_url")
             begun == <<Call("ack", "envelope", ""),
                        Post(response_url, "processing", TRUE),
                        Call("gate", TEAM_ID, "")>>
         IN  IF ~acked
             THEN Finish(r, <<Call("ack failed", "envelope", ""), Call("raise", "", "")>>)
             ELSE IF response_url = None \/ ~noticed
             THEN Finish(r, <<Call("ack", "envelope", ""),
                              Post(response_url, "processing", FALSE),
                              Call("raise", "", "")>>)
             ELSE IF ~has_valid_subscription(TEAM_ID)
             THEN Finish(r, begun
                            \o (IF channel = None THEN <<>>
                                ELSE IF posted THEN <<Post(channel, "advisory", TRUE)>>
                                ELSE <<Post(channel, "advisory", FALSE),
                                       Call("raise", "", "")>>))
             ELSE IF req[r].ep \notin {"slash_commands", "events_api"}
             THEN Finish(r, begun)
             ELSE /\ pc' = [pc EXCEPT ![r] = "handler"]
                  /\ trace' = [trace EXCEPT ![r] =
                         @ \o begun \o <<Call("dispatch", req[r].ep, "")>>]
    /\ UNCHANGED <<program, TEAM_ID, req, processing_tracker, loop, arrived_during, vin, vout, self>>

\* main.py handle_slash_command
main_handle_slash_command(r) ==
    /\ program = "main"
    /\ r \in ReqIds
    /\ pc[r] = "handler"
    /\ req[r].ep = "slash_commands"
    /\ \E returns, posted, apologised \in BOOLEAN :
         LET command == req[r].body.command
             text_to_translate == Strip(req[r].body.text)
             channel_id == req[r].body.channel_id
             prompt ==
                 IF command = "/indo"
                 THEN <<"Translate this message to informal Indonesian:">>
                      \o text_to_translate
                 ELSE <<"Translate this message to English:">> \o text_to_translate
             final_text ==
                 <<">From:", Mention(req[r].body.user_id)>> \o req[r].body.text
                 \o <<content>>
         IN  IF command \in {"/indo", "/en"}
             THEN Finish(r, AnswerOrApologise(prompt, channel_id, final_text, returns,
                                              posted, apologised))
             ELSE Finish(r, <<>>)
    /\ UNCHANGED <<program, TEAM_ID, req, processing_tracker, loop, arrived_during, vin, vout, self>>

----------------------------------------------------------------------------
\* verify_slack_signature called on its own.

VerifyBody == SlashBody("/indo", "U1", Authorized)

VerifyTimestamps ==
    {Timestamp(n) : n \in (NowSec - StaleSeconds - Margin)..(NowSec + StaleSeconds + Margin)}
    \cup {NotDecimal}

\* the signature of the request itself, one made with another secret, and the
\* signature of an earlier request replayed
VerifySignatures(t) ==
    {Sign(SLACK_SIGNING_SECRET, t, VerifyBody), Sign("guessed-secret", t, VerifyBody),
     Sign(SLACK_SIGNING_SECRET, Fresh, VerifyBody)}

VerifyInputs ==
    UNION {{[now |-> now, body |-> VerifyBody, timestamp |-> t, signature |-> s] :
                now \in Clock, s \in VerifySignatures(t)} : t \in VerifyTimestamps}

VerifyCall ==
    /\ vout = None
    /\ vin \in VerifyInputs
    /\ vout' = verify_slack_signature(vin.now, vin.body, vin.timestamp, vin.signature)
    /\ UNCHANGED <<program, TEAM_ID, req, pc, trace, processing_tracker, loop, arrived_during, vin, self>>

InitVerify ==
    /\ program = "main_socket"
    /\ req = <<>>
    /\ pc = <<>>
    /\ trace = <<>>
    /\ processing_tracker = <<>>
    /\ loop = 0
    /\ TEAM_ID = None
    /\ arrived_during = <<>>
    /\ vin \in VerifyInputs
    /\ vout = None
    /\ self = <<>>

SpecVerify == InitVerify /\ [][VerifyCall]_vars

----------------------------------------------------------------------------

Init ==
    /\ program \in {"main_socket", "main_refactored", "main"}
    /\ TEAM_ID \in IF program = "main_socket" THEN {None} ELSE {Authorized, Unauthorized}
    /\ req = <<>>
    /\ pc = <<>>
    /\ trace = <<>>
    /\ processing_tracker = <<>>
    /\ loop = 0
    /\ arrived_during = <<>>
    /\ vin = None
    /\ vout = None
    /\ self = <<>>

Next ==
    \/ \E q \in Requests : Arrive(q)
    \/ \E r \in ReqIds : slash_commands(r)
    \/ \E r \in ReqIds : run_agent_async_start(r)
    \/ \E r \in ReqIds : run_agent_async_agent(r)
    \/ \E r \in ReqIds : run_agent_async_post(r)
    \/ \E r \in ReqIds : run_agent_async_except(r)
    \/ \E r \in ReqIds : slack_events(r)
    \/ \E r \in ReqIds : slack_events_agent(r)
    \/ \E r \in ReqIds : slack_events_post(r)
    \/ \E r \in ReqIds : process(r)
    \/ \E r \in ReqIds : handle_slash_command(r)
    \/ \E r \in ReqIds : handle_events_api(r)
    \/ \E r \in ReqIds : process_unsupported(r)
    \/ \E r \in ReqIds : main_process(r)
    \/ \E r \in ReqIds : main_handle_slash_command(r)

Spec == Init /\ [][Next]_vars

----------------------------------------------------------------------------
\* scratch/main_scratch.py: Socket Mode, the acknowledgment left to the handlers.

\* main_scratch.py process: the dispatch on the request type, with no
\* acknowledgment, no subscription check and no try of its own
scratch_process(r) ==
    /\ program = "main_scratch"
    /\ r \in ReqIds
    /\ pc[r] = "recv"
    /\ IF req[r].ep \in {"events_api", "slash_commands"}
       THEN /\ pc' = [pc EXCEPT ![r] = "handler"]
            /\ trace' = [trace EXCEPT ![r] = Append(@, Call("dispatch", req[r].ep, ""))]
       ELSE Finish(r, <<>>)
    /\ UNCHANGED <<program, TEAM_ID, req, processing_tracker, loop, arrived_during, vin, vout, self>>

\* main_scratch.py handle_slash_command: the acknowledgment, then the
\* translation commands; the payload of a command holds no event
scratch_handle_slash_command(r) ==
    /\ program = "main_scratch"
    /\ r \in ReqIds
    /\ pc[r] = "handler"
    /\ req[r].ep = "slash_commands"
    /\ \E acked, returns, posted, apologised \in BOOLEAN :
         LET command == req[r].body.command
             text_to_translate == Strip(req[r].body.text)
             channel_id == req[r].body.channel_id
             prompt ==
                 IF command = "/indo"
                 THEN <<"Translate this message to Indonesian:">> \o text_to_translate
                 ELSE <<"Translate this message to English:">> \o text_to_translate
             final_text ==
                 <<">From:", Mention(req[r].body.user_id)>> \o req[r].body.text
                 \o <<content>>
         IN  IF ~acked
             THEN Finish(r, <<Call("ack failed", "envelope", ""), Call("raise", "", "")>>)
             ELSE IF command \in {"/indo", "/en"}
             THEN Finish(r, <<Call("ack", "envelope", "")>>
                            \o AnswerOrApologise(prompt, channel_id, final_text, returns,
                                                 posted, apologised))
             ELSE Finish(r, <<Call("ack", "envelope", "")>>)
    /\ UNCHANGED <<program, TEAM_ID, req, processing_tracker, loop, arrived_during, vin, vout, self>>

\* main_scratch.py handle_events_api: the acknowledgment, the reaction, then
\* the answer to a mention.  event["channel"] and event["ts"] raise KeyError for
\* an event without them; nothing catches what the reaction raises.  The final
\* strip() removes the newline that ends the text.
scratch_handle_events_api(r) ==
    /\ program = "main_scratch"
    /\ r \in ReqIds
    /\ pc[r] = "handler"
    /\ req[r].ep = "events_api"
    /\ \E acked, reacted, returns, posted, apologised \in BOOLEAN :
         LET event == PayloadEvent(req[r].body)
             team_id == PayloadGet(req[r].body, "team_id")
             cleaned_text == Strip(Remove(event.text, MentionBot))
             final_text ==
                 Strip(Remove(<<">">> \o Strip(event.text)
                              \o <<"\n", Mention(event.user), content>>, MentionBot))
             ack == <<Call("ack", "envelope", "")>>
         IN  IF ~acked
             THEN Finish(r, <<Call("ack failed", "envelope", ""), Call("raise", "", "")>>)
             ELSE IF event.channel = None \/ event.ts = None \/ ~reacted
             THEN Finish(r, ack \o <<Call("raise", "", "")>>)
             ELSE IF event.type # "app_mention"
             THEN Finish(r, ack \o <<Call("react", event.channel, "eyes")>>)
             ELSE IF ~has_valid_subscription(team_id)
             THEN Finish(r, ack \o <<Call("react", event.channel, "eyes"),
                                     Call("gate", team_id, "")>>
                            \o (IF posted THEN <<Post(event.channel, "advisory", TRUE)>>
                                ELSE <<Post(event.channel, "advisory", FALSE),
                                       Call("raise", "", "")>>))
             ELSE Finish(r, ack \o <<Call("react", event.channel, "eyes"),
                                     Call("gate", team_id, "")>>
                            \o AnswerOrApologise(cleaned_text, event.channel, final_text,
                                                 returns, posted, apologised))
    /\ UNCHANGED <<program, TEAM_ID, req, processing_tracker, loop, arrived_during, vin, vout, self>>

InitScratch ==
    /\ program = "main_scratch"
    /\ TEAM_ID = None
    /\ req = <<>>
    /\ pc = <<>>
    /\ trace = <<>>
    /\ processing_tracker = <<>>
    /\ loop = 0
    /\ arrived_during = <<>>
    /\ vin = None
    /\ vout = None
    /\ self = <<>>

NextScratch ==
    \/ \E q \in Requests : Arrive(q)
    \/ \E r \in ReqIds : scratch_process(r)
    \/ \E r \in ReqIds : scratch_handle_slash_command(r)
    \/ \E r \in ReqIds : scratch_handle_events_api(r)

SpecScratch == InitScratch /\ [][NextScratch]_vars

----------------------------------------------------------------------------
\* main_socket.py receiving requests whose timestamp header is not a number.

\* two requests whose X-Slack-Request-Timestamp is not a decimal integer,
\* signed with the signing secret over the header as sent, and a command and an
\* event of the same user with good headers
TimestampRequests ==
    {Http("/slack/commands", t, SLACK_SIGNING_SECRET, SlashBody("/indo", "U1", Authorized)) :
        t \in {NotDecimal, Fresh}}
    \cup {Http("/slack/events", t, SLACK_SIGNING_SECRET, EventBody(Authorized, MentionU1)) :
        t \in {NotDecimal, Fresh}}

InitTimestamp ==
    /\ program = "main_socket"
    /\ TEAM_ID = None
    /\ req = <<>>
    /\ pc = <<>>
    /\ trace = <<>>
    /\ processing_tracker = <<>>
    /\ loop = 0
    /\ arrived_during = <<>>
    /\ vin = None
    /\ vout = None
    /\ self = <<>>

NextTimestamp ==
    \/ \E q \in TimestampRequests : Receive(q)
    \/ \E r \in ReqIds : slash_commands(r)
    \/ \E r \in ReqIds : run_agent_async_start(r)
    \/ \E r \in ReqIds : run_agent_async_agent(r)
    \/ \E r \in ReqIds : run_agent_async_post(r)
    \/ \E r \in ReqIds : run_agent_async_except(r)
    \/ \E r \in ReqIds : slack_events(r)
    \/ \E r \in ReqIds : slack_events_agent(r)
    \/ \E r \in ReqIds : slack_events_post(r)

SpecTimestamp == InitTimestamp /\ [][NextTimestamp]_vars

----------------------------------------------------------------------------
\* extract_channel_and_ts called on its own.

\* the digits after "/p": a message timestamp in microseconds, one of ten
\* digits and a short one
UrlDigits ==
    {<<"1", "7", "4", "3", "5", "3", "5", "0", "8", "3", "0", "5", "7", "0", "5", "9">>,
     <<"1", "7", "4", "3", "5", "3", "5", "0", "8", "3">>,
     <<"1", "7", "4">>}

\* what may follow the digits: nothing, the query of the link to a reply in a
\* thread, or other text
UrlSuffixes == {<<>>, <<"?thread_ts=1743535083.057059&cid=C08L9AWRH4Z">>, <<Blank, "please">>}

\* texts that do not start as a message URL does
NotUrls ==
    {<<>>, <<"hello">>,
     <<"http://", "benheathworkspace", ".slack.com/archives/", "C08L9AWRH4Z", "/p", "1", "7">>,
     <<"https://", "my_team", ".slack.com/archives/", "C08L9AWRH4Z", "/p", "1", "7">>,
     <<"https://", "benheathworkspace", ".slack.com/archives/", "C08-L9", "/p", "1", "7">>,
     <<"https://", "benheathworkspace", ".slack.com/archives/", "C08L9AWRH4Z", "/p">>,
     <<"https://", "benheathworkspace", ".slack.com/archives/", "C08L9AWRH4Z", "/", "1", "7">>,
     <<"https://", "benheathworkspace", ".slack.com/messages/", "C08L9AWRH4Z", "/p", "1", "7">>,
     <<"see", Blank>> \o MessageUrl}

ExtractInputs ==
    {<<"https://", w, ".slack.com/archives/", c, "/p">> \o d \o s :
        w \in WorkspaceNames, c \in ChannelNames, d \in UrlDigits, s \in UrlSuffixes}
    \cup NotUrls

\* vout holds the value returned, or the ValueError raised
ExtractCall ==
    /\ vout = <<>>
    /\ vout' = <<extract_channel_and_ts(vin)>>
    /\ UNCHANGED <<program, TEAM_ID, req, pc, trace, processing_tracker, loop, arrived_during, vin, self>>

InitExtract ==
    /\ program = "main_refactored"
    /\ TEAM_ID = Authorized
    /\ req = <<>>
    /\ pc = <<>>
    /\ trace = <<>>
    /\ processing_tracker = <<>>
    /\ loop = 0
    /\ arrived_during = <<>>
    /\ vin \in ExtractInputs
    /\ vout = <<>>
    /\ self = <<>>

SpecExtract == InitExtract /\ [][ExtractCall]_vars

----------------------------------------------------------------------------
\* tools/coingecko.py: CoinGeckoTools.  self.coins_list is fetched once by the
\* constructor; every method makes its HTTP requests with requests.get, which
\* returns a response or raises RequestException.

\* str.lower() and str.upper() of the strings the model uses
lower(s) ==
    CASE s = "BTC" -> "btc"
      [] s = "Bitcoin" -> "bitcoin"
      [] s = "BatCat" -> "batcat"
      [] s = "Ethereum" -> "ethereum"
      [] OTHER -> s

upper(s) ==
    CASE s \in {"btc", "BTC"} -> "BTC"
      [] s \in {"bitcoin", "Bitcoin"} -> "BITCOIN"
      [] s = "eth" -> "ETH"
      [] s \in {"ethereum", "Ethereum"} -> "ETHEREUM"
      [] s = "doge" -> "DOGE"
      [] OTHER -> s

Coin(id, symbol, name) == [id |-> id, symbol |-> symbol, name |-> name]

\* /coins/list: two coins share the symbol btc
CoinList ==
    <<Coin("batcat", "btc", "BatCat"), Coin("bitcoin", "btc", "Bitcoin"),
      Coin("ethereum", "eth", "Ethereum")>>

\* the value None of self.coins_list, left by a failed fetch
NoCoinList == [fetched |-> FALSE, coins |-> <<>>]

\* fetch_coin_list: response.json(), or None after a RequestException
fetch_coin_list(ok, listing) ==
    IF ok THEN [fetched |-> TRUE, coins |-> listing] ELSE NoCoinList

\* the total_volume /coins/markets reports for a coin
total_volume(id) ==
    CASE id = "bitcoin" -> 900
      [] id = "batcat" -> 5
      [] OTHER -> 400

\* the outcomes of one requests.get: it raises, or returns an empty or a
\* filled body
Outcomes == {"failed", "empty", "data"}

\* the coins whose symbol or name is the token, letter case apart
RECURSIVE matching_tokens(_, _)
matching_tokens(coins, token) ==
    IF coins = <<>> THEN <<>>
    ELSE (IF lower(Head(coins).symbol) = lower(token)
             \/ lower(Head(coins).name) = lower(token)
          THEN <<Head(coins)>> ELSE <<>>)
         \o matching_tokens(Tail(coins), token)

\* sorted(market_data, key=total_volume, reverse=True)[0]: the sort is stable,
\* so of equal volumes the first listed comes first
RECURSIVE top_token(_)
top_token(market_data) ==
    IF Len(market_data) = 1 THEN Head(market_data)
    ELSE LET rest == top_token(Tail(market_data))
         IN  IF total_volume(Head(market_data).id) >= total_volume(rest.id)
             THEN Head(market_data) ELSE rest

\* the value None of get_coingecko_id
NoToken ==
    [found |-> FALSE, id |-> None, name |-> None, symbol |-> None, total_volume |-> 0]

\* get_coingecko_id: the tuple (id, name, symbol, total_volume) of the most
\* traded coin that matches, or None; market is the outcome of its request
get_coingecko_id(token, market) ==
    LET matches ==
            IF self.coins_list.fetched THEN matching_tokens(self.coins_list.coins, token)
            ELSE <<>>
    IN  IF matches = <<>> \/ market # "data" THEN NoToken
        ELSE LET top == top_token(matches)
             IN  [found |-> TRUE, id |-> top.id, name |-> top.name,
                  symbol |-> top.symbol, total_volume |-> total_volume(top.id)]

\* the requests get_coingecko_id makes
market_request(token) ==
    IF self.coins_list.fetched /\ matching_tokens(self.coins_list.coins, token) # <<>>
    THEN <<"GET /coins/markets">> ELSE <<>>

\* what a call of a method gave: the value returned or the exception raised,
\* and the requests made
Returned(method, value, calls) ==
    [method |-> method, raised |-> "", value |-> value, calls |-> calls]

Raised(method, exception, calls) ==
    [method |-> method, raised |-> exception, value |-> <<>>, calls |-> calls]

\* token_id, _, _, _ = token_data succeeds: unpacking None raises TypeError
Unpack(token_data) == token_data.found

\* get_current_price: a token not found is reported as an error value
get_current_price(token, market, price) ==
    LET token_data == get_coingecko_id(token, market)
        calls == market_request(token)
    IN  IF ~token_data.found
        THEN Returned("get_current_price", <<"Error: Token '", token, "' not found.">>, calls)
        ELSE IF price = "failed"
        THEN Returned("get_current_price", <<"Error fetching current price:">>,
                      calls \o <<"GET /simple/price">>)
        ELSE IF price = "empty"
        THEN Returned("get_current_price",
                      <<"Error: Could not fetch price for", token_data.name,
                        upper(token_data.symbol)>>,
                      calls \o <<"GET /simple/price">>)
        ELSE Returned("get_current_price",
                      <<"The current price of", token_data.name, upper(token_data.symbol)>>,
                      calls \o <<"GET /simple/price">>)

\* get_historical_price: the result of get_coingecko_id is unpacked before it
\* is tested
get_historical_price(token, market, price) ==
    LET token_data == get_coingecko_id(token, market)
        calls == market_request(token)
    IN  IF ~Unpack(token_data)
        THEN Raised("get_historical_price", "TypeError", calls)
        ELSE IF token_data.id = None
        THEN Returned("get_historical_price", <<"Error: Token '", token, "' not found.">>,
                      calls)
        ELSE IF price = "failed"
        THEN Returned("get_historical_price", <<"Error fetching historical price:">>,
                      calls \o <<"GET /coins/{id}/market_chart/range">>)
        ELSE IF price = "empty"
        THEN Returned("get_historical_price",
                      <<"Error: Could not retrieve historical price data for", upper(token)>>,
                      calls \o <<"GET /coins/{id}/market_chart/range">>)
        ELSE Returned("get_historical_price", <<"Historical prices for", upper(token)>>,
                      calls \o <<"GET /coins/{id}/market_chart/range">>)

\* get_market_cap: unpacked before tested, as get_historical_price
get_market_cap(token, market, price) ==
    LET token_data == get_coingecko_id(token, market)
        calls == market_request(token)
    IN  IF ~Unpack(token_data)
        THEN Raised("get_market_cap", "TypeError", calls)
        ELSE IF token_data.id = None
        THEN Returned("get_market_cap", <<"Error: Token '", token, "' not found.">>, calls)
        ELSE IF price = "failed"
        THEN Returned("get_market_cap", <<"Error fetching market cap:">>,
                      calls \o <<"GET /coins/{id}">>)
        ELSE IF price = "empty"
        THEN Returned("get_market_cap", <<"Error: Could not fetch market cap for", upper(token)>>,
                      calls \o <<"GET /coins/{id}">>)
        ELSE Returned("get_market_cap", <<"The market cap of", upper(token)>>,
                      calls \o <<"GET /coins/{id}">>)

\* the tokens asked for: by symbol, by name, in either case, and one that no
\* coin carries
Tokens == {"BTC", "btc", "Bitcoin", "eth", "doge"}

\* the lists the constructor may have cached: None, an empty one, the listing
CoinLists ==
    {fetch_coin_list(FALSE, <<>>), fetch_coin_list(TRUE, <<>>), fetch_coin_list(TRUE, CoinList)}

CoinGeckoInputs == [token : Tokens, market : Outcomes, price : Outcomes]

CurrentPriceCall ==
    /\ vout = <<>>
    /\ vout' = <<get_current_price(vin.token, vin.market, vin.price)>>
    /\ UNCHANGED <<program, TEAM_ID, req, pc, trace, processing_tracker, loop, arrived_during, vin, self>>

HistoricalPriceCall ==
    /\ vout = <<>>
    /\ vout' = <<get_historical_price(vin.token, vin.market, vin.price)>>
    /\ UNCHANGED <<program, TEAM_ID, req, pc, trace, processing_tracker, loop, arrived_during, vin, self>>

MarketCapCall ==
    /\ vout = <<>>
    /\ vout' = <<get_market_cap(vin.token, vin.market, vin.price)>>
    /\ UNCHANGED <<program, TEAM_ID, req, pc, trace, processing_tracker, loop, arrived_during, vin, self>>

InitCoinGecko ==
    /\ program = "main_refactored"
    /\ TEAM_ID = Authorized
    /\ req = <<>>
    /\ pc = <<>>
    /\ trace = <<>>
    /\ processing_tracker = <<>>
    /\ loop = 0
    /\ arrived_during = <<>>
    /\ vin \in CoinGeckoInputs
    /\ vout = <<>>
    /\ self \in {[coins_list |-> l] : l \in CoinLists}

NextCoinGecko == CurrentPriceCall \/ HistoricalPriceCall \/ MarketCapCall

SpecCoinGecko == InitCoinGecko /\ [][NextCoinGecko]_vars

----------------------------------------------------------------------------
\* tools/custom_slack.py: SlackTools.  vin lists the requests passed to
\* current_request so far, vout holds what the last call returned or raised.

MaxCalls == 2  \* calls of current_request on one SlackTools object

\* the value None of self.event
NoSelfEvent == [is_none |-> TRUE, channel |-> None, ts |-> None]

\* {"channel": event.get("channel"), "ts": event.get("ts")}
ChannelTs(event) == [is_none |-> FALSE, channel |-> event.channel, ts |-> event.ts]

\* _set_event: self.event is written only while it is None; event.get raises
\* AttributeError when the payload holds no event
set_event(payload) ==
    IF ~self.event.is_none THEN [raised |-> "", event |-> self.event]
    ELSE IF "event" \notin DOMAIN payload
    THEN [raised |-> "AttributeError", event |-> self.event]
    ELSE [raised |-> "", event |-> ChannelTs(payload.event)]

\* current_request: self.req = req, then _set_event(req.payload.get("event"))
current_request(q) ==
    /\ program = "main_refactored"
    /\ Len(vin) < MaxCalls
    /\ q \in SocketRequests
    /\ vin' = Append(vin, q)
    /\ self' = [req |-> q, event |-> set_event(q.body).event]
    /\ vout' = <<set_event(q.body).raised>>
    /\ UNCHANGED <<program, TEAM_ID, req, pc, trace, processing_tracker, loop, arrived_during>>

\* get_previous_user_message() with event left to its default, self.event.
\* self.client is the SocketModeClient, which has no conversations_history:
\* the AttributeError is caught by the last except branch and returned as
\* {"error": ...}, so no message of the channel is read
get_previous_user_message ==
    /\ program = "main_refactored"
    /\ vout' =
           <<IF self.event.is_none THEN "error: No event data available."
             ELSE IF self.event.channel = None THEN "error: Channel ID not found in event."
             ELSE "error: 'SocketModeClient' object has no attribute 'conversations_history'">>
    /\ UNCHANGED <<program, TEAM_ID, req, pc, trace, processing_tracker, loop, arrived_during, vin, self>>

\* SlackTools(): event defaults to None and self.req is not set
InitSlackTools ==
    /\ program = "main_refactored"
    /\ TEAM_ID = Authorized
    /\ req = <<>>
    /\ pc = <<>>
    /\ trace = <<>>
    /\ processing_tracker = <<>>
    /\ loop = 0
    /\ arrived_during = <<>>
    /\ vin = <<>>
    /\ vout = <<>>
    /\ self = [req |-> None, event |-> NoSelfEvent]

NextSlackTools ==
    \/ \E q \in SocketRequests : current_request(q)
    \/ get_previous_user_message

SpecSlackTools == InitSlackTools /\ [][NextSlackTools]_vars

----------------------------------------------------------------------------
\* What the claims speak of.

Has(r, op) == \E i \in 1..Len(trace[r]) : trace[r][i].op = op

Count(r, op) == Cardinality({i \in 1..Len(trace[r]) : trace[r][i].op = op})

Said(r, what) ==
    \E i \in 1..Len(trace[r]) : trace[r][i].op = "respond" /\ trace[r][i].what = what

IsHttp(r) == req[r].ep \in {"/slack/commands", "/slack/events"}

\* the requester of r: the key of processing_tracker
Requester(r) ==
    IF req[r].ep = "/slack/commands" THEN req[r].body.user_id ELSE req[r].body.event.user

\* r carries a stale timestamp or a signature made without the signing secret
BadHeaders(r) ==
    /\ ~MissingHeader(req[r])
    /\ \/ ~req[r].timestamp.dec
       \/ req[r].timestamp.val < NowSec - 300
       \/ req[r].timestamp.val > NowSec + 300
       \/ req[r].signature[2] # SLACK_SIGNING_SECRET
       \/ req[r].signature[3] # <<"v0", req[r].timestamp, req[r].body>>

----------------------------------------------------------------------------
\* C1: in the HTTP gateway every admitted request has its in-flight marker
\* cleared exactly once on every terminal path; once a dispatch has finished,
\* its admissions equal its releases.
C1_ReleasedOncePerAdmission ==
    \A r \in ReqIds :
        (program = "main_socket" /\ pc[r] = "done")
            => Count(r, "release") = Count(r, "admit")

\* C2: processing_tracker[user_id] is True only while a dispatch of that user
\* is still running; the marker never outlives the request that set it.
C2_MarkerOnlyWhileRunning ==
    program = "main_socket" =>
        \A u \in DOMAIN processing_tracker :
            processing_tracker[u] => \E r \in ReqIds : InFlight(r) /\ Requester(r) = u

\* C3: at every instant at most one dispatch is in flight per requester, and
\* so per (tenant, requester), whatever the endpoints the requests came through.
C3_AtMostOneInFlightPerKey ==
    \A r1, r2 \in ReqIds :
        (IsHttp(r1) /\ IsHttp(r2) /\ InFlight(r1) /\ InFlight(r2)
            /\ Requester(r1) = Requester(r2)) => r1 = r2

C3_Witness ==
    \E r1, r2 \in ReqIds :
        /\ r1 # r2
        /\ req[r1].ep # req[r2].ep
        /\ Requester(r1) = Requester(r2)
        /\ InFlight(r1)
        /\ pc[r2] = "done" /\ Has(r2, "parse") /\ ~Has(r2, "admit")

\* C4: of two byte-identical slash commands of which the second arrives while
\* the first is in flight, only the first is admitted: the second is answered
\* 'already being processed', never invokes the responder and posts nothing.
C4_DuplicateCommandRejected ==
    \A r \in ReqIds : \A q \in arrived_during[r] :
        (req[r].ep = "/slack/commands" /\ req[q] = req[r] /\ pc[r] # "recv")
            => /\ Said(r, "already being processed")
               /\ ~Has(r, "admit") /\ ~Has(r, "agent.run") /\ ~Has(r, "post")

\* C5: of two identical event payloads of which the second arrives while the
\* first is being handled, the second is rejected: the responder runs once and
\* one channel post is made for the pair.
C5_DuplicateEventRejected ==
    \A r \in ReqIds : \A q \in arrived_during[r] :
        (req[r].ep = "/slack/events" /\ req[q] = req[r])
            => /\ ~Has(r, "admit") /\ ~Has(r, "agent.run") /\ ~Has(r, "post")
               /\ Count(q, "agent.run") = 1

\* C6: the acknowledgment of a request is sent before the responder is invoked
\* for it: no agent.run without an earlier response.
C6_AckBeforeResponder ==
    \A r \in ReqIds : \A i \in 1..Len(trace[r]) :
        trace[r][i].op = "agent.run"
            => \E j \in 1..(i - 1) : trace[r][j].op \in {"respond", "ack"}

\* C7: a request whose signature check fails gets the unauthorized response
\* and nothing else happens for it: no parsing, no change of
\* processing_tracker, no responder call, no post.
C7_UnauthorizedStopsEverything ==
    /\ [](\A r \in ReqIds :
            (IsHttp(r) /\ BadHeaders(r) /\ pc[r] # "recv")
                => /\ pc[r] = "done"
                   /\ trace[r] \in {<<Call("respond", "200", "Unauthorized")>>,
                                     <<Call("respond", "403", "Invalid signature")>>})
    /\ [][\A r \in ReqIds :
            (IsHttp(r) /\ BadHeaders(r) /\ pc[r] = "recv" /\ pc'[r] # "recv")
                => processing_tracker' = processing_tracker]_vars

C7_Witness ==
    \E r, q \in ReqIds :
        /\ IsHttp(r) /\ BadHeaders(r) /\ pc[r] = "done"
        /\ arrived_during[r] = {q} /\ processing_tracker[Requester(q)]

\* C8: verify_slack_signature rejects every timestamp more than 300 seconds
\* from the current time, older or newer, whatever the signature; a timestamp
\* exactly 300 seconds off is not rejected as stale.
C8_StaleRejected ==
    (vout # None /\ vin.timestamp.dec) =>
        LET d == vin.now - vin.timestamp.val * Resolution
        IN  /\ (d > 300 * Resolution \/ d < -(300 * Resolution))
                => vout = "ValueError: Request too old"
            /\ (d = 300 * Resolution \/ d = -(300 * Resolution))
                => vout # "ValueError: Request too old"

C8_Witness ==
    /\ vout = "ValueError: Request too old"
    /\ vin.timestamp.val > NowSec
    /\ vin.signature = Sign(SLACK_SIGNING_SECRET, vin.timestamp, vin.body)

\* the event of r, for a request that carries one
IsEvent(r) == req[r].ep \in {"/slack/events", "events_api"}

Posted(r, what) ==
    \E i \in 1..Len(trace[r]) : trace[r][i].op = "post" /\ trace[r][i].what = what

\* C9: an event sent by the bot's own user id, or carrying bot_id, produces
\* nothing: no responder call, no post, no dedup marker.
C9_OwnMessagesDropped ==
    \A r \in ReqIds :
        (IsEvent(r) /\ (req[r].body.event.user = BOT_USER_ID
                        \/ req[r].body.event.bot_id # None))
            => ~Has(r, "agent.run") /\ ~Has(r, "post") /\ ~Has(r, "admit")

\* C10: a request of a tenant outside the allow-list gets one advisory post
\* and nothing else: no responder call, no processing notice, no reply, no
\* dedup marker.
C10_UnauthorizedTenantOnlyAdvised ==
    \A r \in ReqIds :
        ~has_valid_subscription(req[r].body.team_id)
            => /\ ~Has(r, "agent.run") /\ ~Has(r, "admit")
               /\ ~Posted(r, "processing") /\ ~Posted(r, "result")
               /\ ~Posted(r, "apology")
               /\ Count(r, "post") <= 1

\* the text of the answers posted for r
Answers(r) == {i \in 1..Len(trace[r]) : trace[r][i].op = "post" /\ trace[r][i].what = "result"}

\* an attempt to post the apology, whether it went through or not
Apologies(r) ==
    {i \in 1..Len(trace[r]) :
        trace[r][i].op \in {"post", "post failed"} /\ trace[r][i].what = "apology"}

\* the requests the script has a branch for
Supported(r) ==
    IF req[r].ep = "slash_commands"
    THEN req[r].body.command \in
             (IF program = "main_refactored" THEN {"/indo", "/en", "/summarize"}
              ELSE {"/indo", "/en"})
    ELSE /\ req[r].ep = "events_api"
         /\ req[r].body.event.bot_id = None /\ req[r].body.event.user # BOT_USER_ID
         /\ \/ req[r].body.event.type = "app_mention"
            \/ req[r].body.event.type = "message" /\ req[r].body.event.channel_type = "im"

\* r passed every check in front of the dispatch
Admitted(r) == Has(r, "admit") \/ (Has(r, "dispatch") /\ Supported(r))

Failed(r) ==
    \/ Has(r, "agent.run failed")
    \/ \E i \in 1..Len(trace[r]) :
           trace[r][i].op = "post failed" /\ trace[r][i].what = "result"

\* where the answer to r belongs: the callback URL of a command, the channel
\* of an event
OriginalDestination(r) ==
    IF req[r].ep \in {"/slack/commands", "slash_commands"} THEN req[r].body.response_url
    ELSE req[r].body.event.channel

\* C12: in main_socket.py and main_refactored.py, when the responder or the
\* delivery of its answer raised for the request of a user, exactly one
\* apology is sent, to the original destination, and the responder is not
\* invoked a second time.
C12_FailureApologisedOnce ==
    \A r \in ReqIds :
        (/\ program # "main" /\ pc[r] = "done" /\ Failed(r)
         /\ IsEvent(r) => req[r].body.event.user # BOT_USER_ID)
            => /\ Cardinality(Apologies(r)) = 1
               /\ \A i \in Apologies(r) : trace[r][i].dest = OriginalDestination(r)
               /\ Count(r, "agent.run") = 1

\* C13: in main_socket.py and main_refactored.py at most one fallback post is
\* made for a request, and when that post fails too the failure is only
\* logged: nothing escapes the dispatch.
C13_FallbackFailureOnlyLogged ==
    \A r \in ReqIds :
        program # "main" =>
            /\ Cardinality(Apologies(r)) <= 1
            /\ (\E i \in Apologies(r) : trace[r][i].op = "post failed")
                   => pc[r] = "done" /\ Has(r, "log") /\ ~Has(r, "raise")

\* the command tokens the gateway recognizes
RecognizedCommands == {"/indo", "/en", "/summarize"}

IsCommand(r) == req[r].ep \in {"/slack/commands", "slash_commands"}

\* C14: a slash command with an unrecognized command token is dropped: the
\* responder is never invoked for it and no reply is delivered.
C14_UnknownCommandDropped ==
    \A r \in ReqIds :
        (IsCommand(r) /\ req[r].body.command \notin RecognizedCommands)
            => /\ ~Has(r, "agent.run")
               /\ ~Posted(r, "result") /\ Apologies(r) = {}

\* C15: when the fetch of the thread history raised, the dispatch goes on with
\* an empty context: the responder is invoked once and its answer delivered.
C15_FetchFailureNotFatal ==
    \A r \in ReqIds :
        (pc[r] = "done" /\ Has(r, "fetch failed"))
            => /\ Count(r, "agent.run") = 1
               /\ Failed(r) \/ Posted(r, "result")

\* C16: for the Indonesian translate command with text T the responder is
\* invoked once, with the prompt 'Translate this message to Indonesian: T', T
\* stripped, and the answer posted carries the responder's text and the
\* mention of the requester.
C16_IndoPromptAndReply ==
    \A r \in ReqIds :
        (IsCommand(r) /\ req[r].body.command = "/indo" /\ Has(r, "agent.run"))
            => /\ Count(r, "agent.run") = 1
               /\ \A i \in 1..Len(trace[r]) :
                     /\ trace[r][i].op = "agent.run"
                            => trace[r][i].prompt =
                                   <<"Translate this message to Indonesian:">>
                                   \o Strip(req[r].body.text)
                     /\ i \in Answers(r)
                            => /\ \E k \in 1..Len(trace[r][i].text) :
                                      trace[r][i].text[k] = content
                               /\ \E k \in 1..Len(trace[r][i].text) :
                                      trace[r][i].text[k] = Mention(req[r].body.user_id)

\* C17: the context handed to the responder holds exactly the fetched replies
\* that have both a user and a text, oldest first.
C17_ContextOldestFirst ==
    \A r \in ReqIds : \A i, j \in 1..Len(trace[r]) :
        (trace[r][i].op = "fetch" /\ trace[r][j].op = "agent.run" /\ i < j)
            => SubSeq(trace[r][j].prompt, 5, Len(trace[r][j].prompt))
                   = JoinEntries(SelectSeq(trace[r][i].messages, HasUserAndText))

\* C18: for an app_mention of a user in an authorized workspace the responder
\* is invoked once with a prompt that holds the text without the bot's
\* mention, its answer is posted, and the apology is posted only when the
\* responder or the post failed.
C18_MentionAnswered ==
    \A r \in ReqIds :
        (/\ program = "main_refactored" /\ req[r].ep = "events_api" /\ pc[r] = "done"
         /\ Has(r, "dispatch")
         /\ req[r].body.event.type = "app_mention" /\ Supported(r))
            => /\ Count(r, "agent.run") = 1
               /\ Apologies(r) # {} => Failed(r)
               /\ Failed(r) \/ Posted(r, "result")

\* r was turned away because the marker of its requester was set
Rejected(r) ==
    /\ IsHttp(r) /\ pc[r] = "done" /\ Has(r, "parse") /\ ~Has(r, "admit")
    /\ req[r].ep = "/slack/events"
           => /\ req[r].body.type # "url_verification"
              /\ handle_message_event(req[r].body.event) # NoResult

\* C19: a request rejected because its key is in flight gets the 'already in
\* progress' advisory and changes nothing else: it neither sets nor clears a
\* marker of processing_tracker.
C19_RejectionOnlyAdvises ==
    \A r \in ReqIds :
        Rejected(r)
            => /\ Said(r, "already being processed")
               /\ ~Has(r, "release") /\ ~Has(r, "agent.run") /\ ~Has(r, "post")

\* C20: in process the subscription check comes before the acknowledgment and
\* before the 'processing' notice, and it is made on the team_id of the
\* request.
C20_GateBeforeAck ==
    \A r \in ReqIds : \A i \in 1..Len(trace[r]) :
        /\ (\/ trace[r][i].op = "ack"
            \/ trace[r][i].op = "post" /\ trace[r][i].what = "processing")
               => \E j \in 1..(i - 1) : trace[r][j].op = "gate"
        /\ trace[r][i].op = "gate" => trace[r][i].dest = req[r].body.team_id

\* the event of r is neither a mention nor a direct message
Unsupported(r) ==
    /\ req[r].body.event.type # "app_mention"
    /\ ~(req[r].body.event.type = "message" /\ req[r].body.event.channel_type = "im")

\* the event of r was sent by the bot itself or by another bot
SelfOriginated(r) ==
    req[r].body.event.user = BOT_USER_ID \/ req[r].body.event.bot_id # None

\* C21: an event of a user that is neither an app_mention nor a direct message
\* is dropped: no responder call, no dedup marker, no post.
C21_UnsupportedEventDropped ==
    \A r \in ReqIds :
        (IsEvent(r) /\ Unsupported(r) /\ ~SelfOriginated(r))
            => ~Has(r, "agent.run") /\ ~Has(r, "admit") /\ ~Has(r, "post")

\* C22: in the Socket Mode scripts an event that passed the subscription check
\* and is dropped, unsupported or self-originated, leaves nothing a user can
\* see: no post and no reaction.
C22_DroppedSilently ==
    \A r \in ReqIds :
        (/\ req[r].ep = "events_api" /\ Has(r, "dispatch")
         /\ Unsupported(r) \/ SelfOriginated(r))
            => ~Has(r, "post") /\ ~Has(r, "react")

\* r is a correctly signed url_verification handshake
IsHandshake(r) ==
    /\ req[r].ep = "/slack/events"
    /\ ~MissingHeader(req[r]) /\ ~BadHeaders(r)
    /\ req[r].body.type = "url_verification"

\* C23: a correctly signed url_verification request is answered with the
\* challenge of its payload, unchanged, and nothing else happens for it: no
\* change of processing_tracker, no responder call, no post.
C23_ChallengeEchoed ==
    /\ [](\A r \in ReqIds :
            (IsHandshake(r) /\ pc[r] # "recv")
                => /\ pc[r] = "done"
                   /\ trace[r] = <<Call("parse", "json", ""),
                                    Call("respond", "200", req[r].body.challenge)>>)
    /\ [][\A r \in ReqIds :
            (IsHandshake(r) /\ pc[r] = "recv" /\ pc'[r] # "recv")
                => processing_tracker' = processing_tracker]_vars

C23_Witness ==
    \E r, q \in ReqIds :
        /\ IsHandshake(r) /\ pc[r] = "done" /\ Said(r, "challenge-1")
        /\ arrived_during[r] = {q} /\ processing_tracker[Requester(q)]

\* C24: every response of /slack/commands and /slack/events has status 200,
\* but for a failed signature check, which may be answered 403.
C24_AlwaysOk ==
    \A r \in ReqIds : \A i \in 1..Len(trace[r]) :
        (IsHttp(r) /\ trace[r][i].op = "respond")
            => \/ trace[r][i].dest = "200"
               \/ trace[r][i].dest = "403" /\ BadHeaders(r)

Tenant(r) == req[r].body.team_id

\* the step that handles r turns it away on the marker of its requester
RejectedNow(r) ==
    /\ IsHttp(r) /\ pc[r] = "recv" /\ pc'[r] = "done"
    /\ ~MissingHeader(req[r]) /\ ~BadHeaders(r)
    /\ req[r].ep = "/slack/events"
           => /\ req[r].body.type # "url_verification"
              /\ handle_message_event(req[r].body.event) # NoResult
    /\ AlreadyProcessing(Requester(r))

\* C25: a request is never rejected as already in flight on account of an
\* in-flight request of the same user id in another workspace.
C25_DistinctKeysIndependent ==
    [][\A r \in ReqIds :
          RejectedNow(r)
              => ~\E q \in ReqIds :
                     /\ InFlight(q) /\ Requester(q) = Requester(r)
                     /\ Tenant(q) # Tenant(r)]_vars

\* C26: a request that arrived while agent.run or the post of the answer of
\* another user's dispatch is in progress can be handled at once.
C26_AdmissionNotBlocked ==
    \A r \in ReqIds : \A q \in arrived_during[r] :
        (/\ IsHttp(r) /\ pc[r] = "recv" /\ pc[q] \in {"agent", "post"}
         /\ Requester(q) # Requester(r)
         /\ Requester(q) \notin {None, BOT_USER_ID}
         /\ Requester(r) \notin {None, BOT_USER_ID})
            => ENABLED (slash_commands(r) \/ slack_events(r))

\* C27: the 'Processing... Please wait.' notice of a command is sent only for
\* a request that passes the subscription check: never for a request that
\* process turns away as coming from an unauthorized workspace.
C27_NoticeOnlyAfterGate ==
    \A r \in ReqIds :
        (req[r].ep = "slash_commands" /\ Posted(r, "processing"))
            => \E j \in 1..Len(trace[r]) :
                   trace[r][j].op = "gate" /\ has_valid_subscription(trace[r][j].dest)

\* C28: the answer to a mention or a direct message, and the apology on
\* failure, go to the channel of the event and to its thread: thread_ts of the
\* event when it has one, its ts otherwise.
C28_ReplyInThread ==
    \A r \in ReqIds : \A i \in 1..Len(trace[r]) :
        (/\ req[r].ep = "events_api" /\ Supported(r)
         /\ trace[r][i].op \in {"post", "post failed"}
         /\ trace[r][i].what \in {"result", "apology"})
            => /\ trace[r][i].dest = req[r].body.event.channel
               /\ "thread_ts" \in DOMAIN trace[r][i]
               /\ trace[r][i].thread_ts = thread_ts(req[r].body.event)

\* C29: for a mention that is a reply inside a thread the history is fetched
\* under the root of the thread, thread_ts, not under the ts of the mention.
C29_FetchUnderThreadRoot ==
    \A r \in ReqIds :
        (/\ program = "main_refactored" /\ req[r].ep = "events_api" /\ pc[r] = "done"
         /\ Has(r, "dispatch") /\ Supported(r)
         /\ req[r].body.event.type = "app_mention"
         /\ req[r].body.event.thread_ts \notin {None, req[r].body.event.ts})
            => \E i \in 1..Len(trace[r]) :
                   /\ trace[r][i].op \in {"fetch", "fetch failed"}
                   /\ trace[r][i].what = req[r].body.event.thread_ts

\* r is a direct message of a user that main_refactored.py has handled
IsDirectMessage(r) ==
    /\ program = "main_refactored" /\ req[r].ep = "events_api" /\ pc[r] = "done"
    /\ Has(r, "dispatch") /\ Supported(r)
    /\ req[r].body.event.type = "message" /\ req[r].body.event.channel_type = "im"

\* C30: for a direct message of a user the responder is invoked once, with the
\* text of the message and nothing else, and no history is fetched.
C30_DirectMessageAlone ==
    \A r \in ReqIds :
        IsDirectMessage(r)
            => /\ Count(r, "agent.run") = 1
               /\ \A i \in 1..Len(trace[r]) :
                     trace[r][i].op = "agent.run"
                         => trace[r][i].prompt = Strip(req[r].body.event.text)
               /\ ~Has(r, "fetch") /\ ~Has(r, "fetch failed")

C30_Witness ==
    \E r \in ReqIds : IsDirectMessage(r) /\ Posted(r, "result")

\* q is a slash command of the requester of r that carries good headers
FurtherCommand(r, q) ==
    /\ q # r
    /\ req[q].ep = "/slack/commands"
    /\ req[q].body.user_id = req[r].body.user_id
    /\ ~MissingHeader(req[q]) /\ ~BadHeaders(q)

\* the background run of r has not failed and its post has not returned
BeforePostReturns(r) ==
    req[r].ep = "/slack/commands" /\ pc[r] \in {"background", "agent", "post"}

Effects ==
    {"gate", "dispatch", "post", "post failed", "react", "fetch", "fetch failed",
     "agent.run", "agent.run failed"}

\* C32: in process of main_refactored.py, when sending the acknowledgment
\* raises, the request is abandoned with no further effect: no subscription
\* check is acted on, no 'processing' notice is sent, the responder is not
\* invoked and nothing is posted.
C32_AckFailureAbandons ==
    \A r \in ReqIds :
        (program = "main_refactored" /\ Has(r, "ack failed"))
            => /\ pc[r] = "done"
               /\ \A i \in 1..Len(trace[r]) : trace[r][i].op \notin Effects

C32_Witness ==
    \E r \in ReqIds :
        /\ program = "main_refactored" /\ Has(r, "ack failed") /\ pc[r] = "done"
        /\ req[r].ep = "slash_commands" /\ has_valid_subscription(TEAM_ID)

\* the calls of send_socket_mode_response made for r, returned or raised
Acknowledgments(r) == Count(r, "ack") + Count(r, "ack failed")

\* C33: each socket-mode request envelope is acknowledged exactly once: over
\* the whole handling of a request by process and the handler it dispatches
\* to, send_socket_mode_response is called once, for every request type.
C33_AcknowledgedOnce ==
    \A r \in ReqIds :
        (program # "main_socket" /\ pc[r] = "done") => Acknowledgments(r) = 1

\* the timestamp header of r is not a decimal integer
NotANumber(r) == IsHttp(r) /\ ~MissingHeader(req[r]) /\ ~req[r].timestamp.dec

\* C34: a request whose timestamp header is not a decimal integer is handled
\* as a signature failure: the endpoint returns its unauthorized response and
\* does nothing else, no error escapes the handler and processing_tracker is
\* left as it was.
C34_BadTimestampUnauthorized ==
    /\ [](\A r \in ReqIds :
            (NotANumber(r) /\ pc[r] # "recv")
                => /\ pc[r] = "done"
                   /\ trace[r] =
                        IF req[r].ep = "/slack/commands"
                        THEN <<Call("respond", "200", "Unauthorized")>>
                        ELSE <<Call("respond", "403", "Invalid signature")>>)
    /\ [][\A r \in ReqIds :
            (NotANumber(r) /\ pc[r] = "recv" /\ pc'[r] # "recv")
                => processing_tracker' = processing_tracker]_vars

C34_Witness ==
    \E r, q \in ReqIds :
        /\ NotANumber(r) /\ pc[r] = "done"
        /\ req[r].signature = Sign(SLACK_SIGNING_SECRET, req[r].timestamp, req[r].body)
        /\ pc[q] = "background" /\ processing_tracker[Requester(q)]
        /\ q \in arrived_during[r]

\* url is https://<workspace>.slack.com/archives/<CHANNEL>/p<digits> and
\* nothing more
OfMessageForm(url) ==
    /\ Len(url) >= 6
    /\ url[1] = "https://" /\ url[3] = ".slack.com/archives/" /\ url[5] = "/p"
    /\ url[2] \in WorkspaceNames /\ url[4] \in ChannelNames
    /\ \A i \in 6..Len(url) : url[i] \in Digits

\* C35: extract_channel_and_ts maps a message URL
\* https://<workspace>.slack.com/archives/<CHANNEL>/p<digits> to CHANNEL and the
\* digits with a '.' after the tenth, and raises ValueError for every URL that
\* is not of that form.
C35_ExtractExactForm ==
    vout # <<>> =>
        LET got == vout[1]
            digits == SubSeq(vin, 6, Len(vin))
        IN  /\ got.ok <=> OfMessageForm(vin)
            /\ got.ok => /\ got.channel = vin[4]
                         /\ got.ts = Take(digits, 10) \o <<".">> \o Drop(digits, 10)

\* the request a method makes for prices once it has the coin's id
PriceRequests == {"GET /simple/price", "GET /coins/{id}/market_chart/range", "GET /coins/{id}"}

\* C36: get_historical_price and get_market_cap return the error value
\* "Error: Token '<token>' not found." and make no price request whenever
\* get_coingecko_id finds no matching token (empty coin list, no symbol or name
\* match, failed market-data fetch); they never raise in that case.
C36_NotFoundIsAnError ==
    (/\ vout # <<>>
     /\ vout[1].method \in {"get_historical_price", "get_market_cap"}
     /\ get_coingecko_id(vin.token, vin.market) = NoToken)
        => /\ vout[1].raised = ""
           /\ vout[1].value = <<"Error: Token '", vin.token, "' not found.">>
           /\ \A i \in 1..Len(vout[1].calls) : vout[1].calls[i] \notin PriceRequests

\* C37: after any sequence of current_request calls, the event
\* get_previous_user_message uses by default (self.event) is the channel and
\* ts of the most recent request passed to current_request.
C37_EventIsLatestRequest ==
    vin # <<>> =>
        LET latest == vin[Len(vin)].body
        IN  "event" \in DOMAIN latest => self.event = ChannelTs(latest.event)

====
